---- MODULE Spec2Model ----
(***************************************************************************)
(* A model of publish_netcdf.py: the reconciliation of a THREDDS catalog   *)
(* directory (the destination) with the public, NetCDF-bearing resource    *)
(* collections under an iRODS proxy path (the source).                     *)
(*                                                                         *)
(* Names (collection names, file names, catalog entry names) are sequences *)
(* of one-character strings, so that str.lower, str.endswith, "in" and the *)
(* glob of scan_destination are computed character by character.          *)
(*                                                                         *)
(* Times: a data object's modify_time is a naive datetime, a catalog       *)
(* entry's mtime is a POSIX timestamp.  Both are integers here; datetime   *)
(* .timestamp() and datetime.fromtimestamp() convert between them by the   *)
(* local zone's UTC offset tz (a zone without daylight saving).            *)
(*                                                                         *)
(* The program is sequential: one run of sync_resources is a sequence of   *)
(* steps, its position held in pc.  The source store changes only between  *)
(* runs (section 5 of the specification: no concurrent operations).        *)
(* Collections under the proxy path are named by resource ids of the       *)
(* fixed shape or by a housekeeping name.                                  *)
(***************************************************************************)
EXTENDS Integers, Sequences, FiniteSets, TLC

(* ------------------------------ bounds -------------------------------- *)

\* the number of changes made to the source store after Init; the wall
\* clock advances with each
MaxChanges == 1

\* the entries of a directory tree given to replace_spaces_in_names
MaxEntries == 3

\* the calls of replace_spaces_in_names on one tree
MaxCalls == 2

(* ----------------------- constants of the program --------------------- *)

RESOURCE_ID_GLOB == [k \in 1..32 |-> "?"]

EXCLUDED == << <<"b","a","g","s">>, <<"t","e","m","p">>, <<"z","i","p","s">> >>

IS_PUBLIC_KEY == "isPublic"

IS_PUBLIC_VALUE == "true"

NETCDF_EXTENSION == <<".","n","c">>

\* stat.S_IRWXU | S_IRGRP | S_IXGRP | S_IROTH | S_IXOTH
FILE_MODE == "rwxr-xr-x"

(* ------------------------------ strings ------------------------------- *)

Range(s) == {s[k] : k \in DOMAIN s}

\* str.lower on one character of the alphabet used by the model's names
LowerChar(c) ==
    CASE c = "N" -> "n"
      [] c = "C" -> "c"
      [] c = "D" -> "d"
      [] OTHER -> c

lower(s) == [k \in DOMAIN s |-> LowerChar(s[k])]

endswith(s, suffix) ==
    /\ Len(s) >= Len(suffix)
    /\ SubSeq(s, Len(s) - Len(suffix) + 1, Len(s)) = suffix

\* " " in f
HasSpace(s) == \E k \in DOMAIN s : s[k] = " "

\* glob.glob's match of one path component against a pattern of "?"s and
\* literal characters: same length, every position matches, and a name
\* with a leading dot is hidden from a pattern that has none
GlobMatch(name, pattern) ==
    /\ Len(name) = Len(pattern)
    /\ \A k \in DOMAIN pattern : pattern[k] = "?" \/ pattern[k] = name[k]
    /\ (Len(name) > 0 /\ name[1] = ".") => pattern[1] = "."

\* all orders in which the members of a finite set can be listed
Orders(S) ==
    {f \in [1..Cardinality(S) -> S] : \A a, b \in DOMAIN f : f[a] = f[b] => a = b}

MaxOf(S) == CHOOSE m \in S : \A x \in S : x <= m

(* ------------------------------- names -------------------------------- *)

IdA == [k \in 1..Len(RESOURCE_ID_GLOB) |-> "a"]

IdB == [k \in 1..Len(RESOURCE_ID_GLOB) |-> "b"]

Bags == EXCLUDED[1]

\* a catalog entry that is no resource directory
Stray == <<"l","o","g">>

ResourceIds == {IdA, IdB}

SourceNames == ResourceIds \cup {Bags}

(* --------------------------- the source store -------------------------- *)

\* an AVU of a collection's metadata
Avu(k, v) == [name |-> k, value |-> v]

Public == {Avu(IS_PUBLIC_KEY, IS_PUBLIC_VALUE)}

\* not annotated, annotated with another value, annotated under another key
MetadataChoices ==
    {{}, Public, {Avu(IS_PUBLIC_KEY, "True")}, {Avu(IS_PUBLIC_KEY, "false")},
     {Avu("public", IS_PUBLIC_VALUE)}}

DataObject(n, t) == [name |-> n, modify_time |-> t]

\* The content of a collection as collection.walk() lists it: one sequence
\* of data objects per (sub)collection, the collection itself first.
TopNc(t) == << <<DataObject(<<"d",".","n","c">>, t)>> >>

NestedNc(t) == << <<DataObject(<<"r",".","t","x","t">>, t)>>,
                  <<DataObject(<<"D",".","N","C">>, t)>> >>

SpaceNc(t) == << <<DataObject(<<"a"," ","b",".","n","c">>, t)>> >>

TxtOnly(t) == << <<DataObject(<<"r",".","t","x","t">>, t)>> >>

NoDot(t) == << <<DataObject(<<"d","n","c">>, t),
                 DataObject(<<"d",".","n","c",".","t">>, t)>> >>

Empty == << <<>>, <<>> >>

Collection(m, w) == [metadata |-> m, walk |-> w]

\* a function with x mapped to v, and without x
Put(f, x, v) == [n \in DOMAIN f \cup {x} |-> IF n = x THEN v ELSE f[n]]

Drop(f, x) == [n \in DOMAIN f \ {x} |-> f[n]]

\* the result of a call: a value, or the exception it raised
Return(v) == [raised |-> "", value |-> v]

Raise(e) == [raised |-> e, value |-> 0]

RECURSIVE Flatten(_)
\* data_objects.extend(leaf[2]) for every leaf of the walk
Flatten(lists) ==
    IF lists = <<>> THEN <<>> ELSE Head(lists) \o Flatten(Tail(lists))

\* subcollection.metadata.keys()
keys(metadata) == {m.name : m \in metadata}

\* subcollection.metadata[key]
getitem(metadata, key) == CHOOSE m \in metadata : m.name = key

(* ------------------- get_latest_resource_timestamp -------------------- *)

\* get_latest_resource_timestamp, were the collection not walked below its
\* top
get_latest_resource_timestamp_top_level(collection) ==
    LET data_objects == Head(collection.walk)
        timestamps == [k \in DOMAIN data_objects |-> data_objects[k].modify_time]
    IN  IF timestamps = <<>>
        THEN Raise("ValueError")
        ELSE Return(MaxOf(Range(timestamps)))

\* max() of no timestamps raises ValueError
get_latest_resource_timestamp(collection) ==
    LET data_objects == Flatten(collection.walk)
        timestamps == [k \in DOMAIN data_objects |-> data_objects[k].modify_time]
    IN  IF timestamps = <<>>
        THEN Raise("ValueError")
        ELSE Return(MaxOf(Range(timestamps)))

(* ----------------------------- scan_source ---------------------------- *)

\* netcdf_objects, were the extension compared without str.lower
netcdf_objects_case_sensitive(collection) ==
    SelectSeq(Flatten(collection.walk),
              LAMBDA obj : endswith(obj.name, NETCDF_EXTENSION))

netcdf_objects(collection) ==
    SelectSeq(Flatten(collection.walk),
              LAMBDA obj : endswith(lower(obj.name), NETCDF_EXTENSION))

is_public(collection) ==
    /\ "isPublic" \in keys(collection.metadata)
    /\ getitem(collection.metadata, IS_PUBLIC_KEY).value = IS_PUBLIC_VALUE

\* the names scan_source keeps, in the order the store lists them
public_netcdf(store, subcollections) ==
    LET included == SelectSeq(subcollections, LAMBDA n : n \notin Range(EXCLUDED))
        public == SelectSeq(included, LAMBDA n : is_public(store[n]))
    IN  SelectSeq(public, LAMBDA n : netcdf_objects(store[n]) # <<>>)

\* scan_source over the store, its subcollections listed in the given order
scan_source(store, subcollections) ==
    LET kept == public_netcdf(store, subcollections)
        latest == [k \in DOMAIN kept |-> get_latest_resource_timestamp(store[kept[k]])]
    IN  IF \E k \in DOMAIN kept : latest[k].raised # ""
        THEN Raise("ValueError")
        ELSE Return([k \in DOMAIN kept |-> <<kept[k], latest[k].value>>])

(* --------------------------- scan_destination ------------------------- *)

\* timestamp_of, were the naive datetime taken as UTC
timestamp_of_utc(datetime, z) == datetime

\* datetime.timestamp() and datetime.fromtimestamp() in a zone at offset z
timestamp_of(datetime, z) == datetime - z

fromtimestamp(seconds, z) == seconds + z

\* the entries glob.glob(catalog_path/RESOURCE_ID_GLOB) lists
glob(cat) == {n \in DOMAIN cat : GlobMatch(n, RESOURCE_ID_GLOB)}

\* scan_destination, the glob listing its matches in the given order
scan_destination(cat, resources, z) ==
    [k \in DOMAIN resources |->
        <<resources[k], fromtimestamp(cat[resources[k]].mtime, z)>>]

(* ------------------------- the catalog's entries ---------------------- *)

\* A top-level entry of the catalog path: its modification time, the mode
\* of what it holds, and the names of the files below it.
Entry(t, m, f) == [mtime |-> t, mode |-> m, files |-> f]

\* the names of the data objects of a collection
names_of(collection) ==
    LET data_objects == Flatten(collection.walk)
    IN  [k \in DOMAIN data_objects |-> data_objects[k].name]

\* What iget -rf leaves of the first `count` data objects of a collection
\* in the catalog: the directory is created or merged into, files are
\* overwritten in place; new files carry the umask's mode, and the
\* directory is modified (at the wall clock's time) when names are added.
copied(cat, id, collection, count, clock) ==
    LET arrived == {names_of(collection)[k] : k \in 1..count}
    IN  IF id \notin DOMAIN cat
        THEN Entry(clock, "umask", arrived)
        ELSE IF arrived \subseteq cat[id].files
             THEN cat[id]
             ELSE Entry(clock, "umask", cat[id].files \cup arrived)

\* rchmod(destination, FILE_MODE)
rchmod(entry, mode) == [entry EXCEPT !.mode = mode]

RECURSIVE replace(_, _, _)
\* str.replace(old, new) for a one-character old
replace(s, old, new) ==
    IF s = <<>> THEN <<>>
    ELSE (IF Head(s) = old THEN new ELSE <<Head(s)>>) \o replace(Tail(s), old, new)

\* replace_spaces_in_names(destination): every name with a space is renamed,
\* which modifies the directory holding it
replace_spaces_in_names(entry, clock) ==
    IF \E f \in entry.files : HasSpace(f)
    THEN [entry EXCEPT !.files = {replace(f, " ", <<"_","_">>) : f \in entry.files},
                       !.mtime = clock]
    ELSE entry

\* os.utime(destination, (timestamp.timestamp(), timestamp.timestamp()))
utime(entry, seconds) == [entry EXCEPT !.mtime = seconds]

(* ------------------------------- state -------------------------------- *)

VARIABLES
    proxy,                  \* the source store: collection name -> collection
    catalog,                \* the catalog path: entry name -> entry
    now,                    \* the wall clock
    tz,                     \* the local zone's offset
    changes,                \* changes made to the source store so far
    pc,                     \* the program's position
    error,                  \* the exception that ended the run, "" if none
    source_netcdf,          \* sync_resources' locals
    destination_netcdf,
    destination_ids,
    destination_timestamps,
    i,                      \* position of the publish loop in source_netcdf
    j,                      \* position of the removal loop
    resource_id,            \* publish_resource's argument
    timestamp,              \* publish_resource's local
    returncode,             \* id -> the return code of its iget
    start,                  \* the catalog as the run found it
    attempts,               \* id -> calls of publish_resource in this run
    removals,               \* id -> calls of remove_resource in this run
    outcome,                \* id -> how its publish_resource call ended
    trail,                  \* id -> the steps its publish_resource call took
    args,                   \* the command line as argparse parsed it
    tree,                   \* a directory tree: relative path -> node
    found,                  \* the tree before replace_spaces_in_names was called
    before,                 \* the tree as the current call found it
    todo,                   \* the entries of the reversed walk, in the loops' order
    at,                     \* position of the loops in todo
    replaced,               \* replace_spaces_in_names' local
    calls,                  \* calls of replace_spaces_in_names so far
    stamped,                \* ids whose entry's mtime was set by os.utime
    failed,                 \* ids whose last publish ended with NetCDFPublicationError
    converged               \* the last run returned, its publishes too, and
                            \* the source store has not changed since

store == <<proxy, catalog, now, tz, changes>>

locals == <<source_netcdf, destination_netcdf, destination_ids,
            destination_timestamps, i, j, resource_id, timestamp>>

history == <<returncode, start, attempts, removals, outcome, trail>>

normalizer == <<tree, found, before, todo, at, replaced, calls>>

\* what runs leave to the runs after them, recorded where a specification
\* observes it (SpecRuns)
ledger == <<stamped, failed, converged>>

\* nothing is recorded
NoLedger ==
    /\ stamped = {}
    /\ failed = {}
    /\ converged = FALSE

vars == <<store, pc, error, locals, history, args, normalizer, ledger>>

\* args = parser.parse_args(): dotenv_path, and resource_id ("" when the
\* command line gives none)
Namespace(id) == [dotenv_path |-> ".env", resource_id |-> id]

\* replace_spaces_in_names is not under way, and has no tree of its own
NoTree ==
    /\ tree = <<>>
    /\ found = <<>>
    /\ before = <<>>
    /\ todo = <<>>
    /\ at = 0
    /\ replaced = 0
    /\ calls = 0

\* the zones of the model: UTC, and one west of it
TimeZones == {-1, 0}

\* the collections a store is given: with NetCDF at the top, under a name
\* with a space, or with none
Shapes(t) == {TopNc(t), SpaceNc(t), TxtOnly(t)}

Annotations == {Public, {}}

\* the stores a deployment starts from: the housekeeping collection, and
\* public resources with NetCDF
InitialStores ==
    {s \in UNION {[D -> {Collection(Public, TopNc(0))}] :
                    D \in SUBSET SourceNames} :
        /\ Bags \in DOMAIN s
        /\ s[Bags] = Collection(Public, TopNc(0))}

\* the catalogs a run may find: a stray entry, and resources published by
\* earlier runs from TopNc(0) collections
InitialCatalogs(z) ==
    {[n \in D \cup {Stray} |->
        IF n = Stray
        THEN Entry(0, "umask", {})
        ELSE Entry(timestamp_of(0, z), FILE_MODE, Range(names_of(Collection(Public, TopNc(0)))))] :
     D \in SUBSET ResourceIds}

Init ==
    /\ proxy \in InitialStores
    /\ tz \in TimeZones
    /\ catalog \in InitialCatalogs(tz)
    /\ now = 1
    /\ changes = 0
    /\ pc = "idle"
    /\ error = ""
    /\ source_netcdf = <<>>
    /\ destination_netcdf = <<>>
    /\ destination_ids = <<>>
    /\ destination_timestamps = <<>>
    /\ i = 0
    /\ j = 0
    /\ resource_id = <<>>
    /\ timestamp = 0
    /\ returncode = [id \in ResourceIds |-> 0]
    /\ start = <<>>
    /\ attempts = [id \in ResourceIds |-> 0]
    /\ removals = [id \in ResourceIds |-> 0]
    /\ outcome = [id \in ResourceIds |-> ""]
    /\ trail = [id \in ResourceIds |-> <<>>]
    /\ args = Namespace(<<>>)
    /\ NoTree
    /\ NoLedger

(* --------------------- the world between two runs --------------------- *)

\* a data object of a collection is rewritten
Modify(n) ==
    /\ pc = "idle"
    /\ changes < MaxChanges
    /\ n \in DOMAIN proxy
    /\ \E a \in DOMAIN proxy[n].walk : \E b \in DOMAIN proxy[n].walk[a] :
          /\ proxy[n].walk[a][b].modify_time # now
          /\ proxy' = [proxy EXCEPT ![n].walk[a][b].modify_time = now]
    /\ changes' = changes + 1
    /\ now' = now + 1
    /\ UNCHANGED <<catalog, tz, pc, error, locals, history>>
    /\ UNCHANGED <<args, normalizer>>

\* a collection's visibility annotation is set or taken away
Annotate(n, m) ==
    /\ pc = "idle"
    /\ changes < MaxChanges
    /\ n \in DOMAIN proxy
    /\ proxy[n].metadata # m
    /\ proxy' = [proxy EXCEPT ![n].metadata = m]
    /\ changes' = changes + 1
    /\ now' = now + 1
    /\ UNCHANGED <<catalog, tz, pc, error, locals, history>>
    /\ UNCHANGED <<args, normalizer>>

\* a collection is deleted
Delete(n) ==
    /\ pc = "idle"
    /\ changes < MaxChanges
    /\ n \in DOMAIN proxy
    /\ proxy' = Drop(proxy, n)
    /\ changes' = changes + 1
    /\ now' = now + 1
    /\ UNCHANGED <<catalog, tz, pc, error, locals, history>>
    /\ UNCHANGED <<args, normalizer>>

\* a collection is created
Create(n, m, w) ==
    /\ pc = "idle"
    /\ changes < MaxChanges
    /\ n \notin DOMAIN proxy
    /\ proxy' = Put(proxy, n, Collection(m, w))
    /\ changes' = changes + 1
    /\ now' = now + 1
    /\ UNCHANGED <<catalog, tz, pc, error, locals, history>>
    /\ UNCHANGED <<args, normalizer>>

(* --------------------------- sync_resources --------------------------- *)

\* An exception nothing catches ends the run.
Uncaught(e) ==
    /\ pc' = "aborted"
    /\ error' = e

\* the run's process is started
SyncStart ==
    /\ pc = "idle"
    /\ pc' = "scan_source"
    /\ start' = catalog
    /\ UNCHANGED <<store, error, locals, returncode, attempts, removals, outcome, trail>>
    /\ UNCHANGED <<args, normalizer>>

\* ScanRaised, were the failure taken for an empty inventory
ScanRaised_swallowed(e) ==
    /\ source_netcdf' = <<>>
    /\ pc' = "scan_destination"
    /\ UNCHANGED error

\* scan_source raises e: nothing in sync_resources catches it
ScanRaised(e) ==
    /\ Uncaught(e)
    /\ UNCHANGED source_netcdf

\* source_netcdf = scan_source(irods_env, proxy_path)
ScanSource ==
    /\ pc = "scan_source"
    /\ \E connected \in BOOLEAN : \E subcollections \in Orders(DOMAIN proxy) :
          LET scanned == scan_source(proxy, subcollections)
          IN  IF ~connected
              THEN ScanRaised("NetworkException")
              ELSE IF scanned.raised # ""
              THEN ScanRaised(scanned.raised)
              ELSE /\ source_netcdf' = scanned.value
                   /\ pc' = "scan_destination"
                   /\ UNCHANGED error
    /\ UNCHANGED <<store, destination_netcdf, destination_ids,
                   destination_timestamps, i, j, resource_id, timestamp, history>>
    /\ UNCHANGED <<args, normalizer>>

\* destination_netcdf = scan_destination(catalog_path), and the two lists
\* taken from it
ScanDestination ==
    /\ pc = "scan_destination"
    /\ \E resources \in Orders(glob(catalog)) :
          /\ destination_netcdf' = scan_destination(catalog, resources, tz)
          /\ destination_ids' = [k \in DOMAIN resources |-> destination_netcdf'[k][1]]
          /\ destination_timestamps' = [k \in DOMAIN resources |-> destination_netcdf'[k][2]]
    /\ i' = 1
    /\ pc' = "publish_loop"
    /\ UNCHANGED <<store, error, source_netcdf, j, resource_id, timestamp, history>>
    /\ UNCHANGED <<args, normalizer>>

\* list.index
index(list, x) == CHOOSE k \in DOMAIN list : list[k] = x /\ \A l \in 1..(k - 1) : list[l] # x

\* due, were an identifier missing from the destination passed over
due_known_only(source_id, source_timestamp, ids, timestamps) ==
    /\ source_id \in Range(ids)
    /\ source_timestamp > timestamps[index(ids, source_id)]

\* due, were the comparison of the timestamps not strict
due_not_strict(source_id, source_timestamp, ids, timestamps) ==
    IF source_id \notin Range(ids)
    THEN TRUE
    ELSE source_timestamp >= timestamps[index(ids, source_id)]

\* the body of the publish loop: whether source item (source_id,
\* source_timestamp) is published
due(source_id, source_timestamp, ids, timestamps) ==
    IF source_id \notin Range(ids)
    THEN TRUE
    ELSE source_timestamp > timestamps[index(ids, source_id)]

\* for source_id, source_timestamp in source_netcdf: ... publish_resource is
\* called, or the item is passed over
PublishLoop ==
    /\ pc = "publish_loop"
    /\ IF i > Len(source_netcdf)
       THEN /\ pc' = "rescan"
            /\ UNCHANGED <<i, resource_id, history>>
       ELSE LET source_id == source_netcdf[i][1]
                source_timestamp == source_netcdf[i][2]
            IN  IF due(source_id, source_timestamp, destination_ids, destination_timestamps)
                THEN /\ pc' = "timestamp"
                     /\ resource_id' = source_id
                     /\ attempts' = [attempts EXCEPT ![source_id] = @ + 1]
                     /\ trail' = [trail EXCEPT ![source_id] = <<>>]
                     /\ outcome' = [outcome EXCEPT ![source_id] = ""]
                     /\ UNCHANGED <<i, returncode, start, removals>>
                ELSE /\ i' = i + 1
                     /\ UNCHANGED <<pc, resource_id, history>>
    /\ UNCHANGED <<store, error, source_netcdf, destination_netcdf, destination_ids,
                   destination_timestamps, j, timestamp>>
    /\ UNCHANGED <<args, normalizer>>

(* -------------------------- publish_resource -------------------------- *)

\* getattr on the namespace argparse made
getattr(namespace, name) ==
    IF name \in DOMAIN namespace THEN Return(namespace[name]) ELSE Raise("AttributeError")

\* __main__'s handler of NetCDFPublicationError: the text of the warning is
\* formatted from args.resource_id, args.src_path and args.dest_path, and
\* logged; an exception raised in the handler leaves the program
MainHandler ==
    LET fields == <<"resource_id", "src_path", "dest_path">>
        read == [k \in DOMAIN fields |-> getattr(args, fields[k])]
    IN  IF \E k \in DOMAIN fields : read[k].raised # ""
        THEN Uncaught(read[CHOOSE k \in DOMAIN fields :
                                /\ read[k].raised # ""
                                /\ \A l \in 1..(k - 1) : read[l].raised = ""].raised)
        ELSE /\ pc' = "done"
             /\ UNCHANGED error

\* Raised, were there no handler around the call of publish_resource
Raised_unhandled(e) ==
    /\ outcome' = [outcome EXCEPT ![resource_id] = e]
    /\ Uncaught(e)
    /\ UNCHANGED i

\* Raised, were the handler to take every exception
Raised_handle_all(e) ==
    /\ outcome' = [outcome EXCEPT ![resource_id] = e]
    /\ pc' = "publish_loop"
    /\ i' = i + 1
    /\ UNCHANGED error

\* publish_resource ends with exception e: sync_resources' handler takes
\* NetCDFPublicationError and goes on with the next source item, __main__'s
\* handler takes it when publish_resource was called for the command
\* line's resource id; any other exception leaves the caller
Raised(e) ==
    /\ outcome' = [outcome EXCEPT ![resource_id] = e]
    /\ IF e # "NetCDFPublicationError"
       THEN /\ Uncaught(e)
            /\ UNCHANGED i
       ELSE IF args.resource_id # <<>>
       THEN /\ MainHandler
            /\ UNCHANGED i
       ELSE /\ pc' = "publish_loop"
            /\ i' = i + 1
            /\ UNCHANGED error

\* publish_resource returns None, to the publish loop or to __main__
Returned ==
    /\ outcome' = [outcome EXCEPT ![resource_id] = "published"]
    /\ IF args.resource_id # <<>>
       THEN /\ pc' = "done"
            /\ UNCHANGED i
       ELSE /\ pc' = "publish_loop"
            /\ i' = i + 1
    /\ UNCHANGED error

Step(name) == trail' = [trail EXCEPT ![resource_id] = Append(@, name)]

\* __main__ with a resource id on the command line: publish_resource is
\* called for it
MainPublish(id) ==
    /\ pc = "idle"
    /\ args' = Namespace(id)
    /\ args'.resource_id # <<>>
    /\ pc' = "timestamp"
    /\ resource_id' = args'.resource_id
    /\ start' = catalog
    /\ attempts' = [attempts EXCEPT ![id] = @ + 1]
    /\ UNCHANGED <<store, error, source_netcdf, destination_netcdf, destination_ids,
                   destination_timestamps, i, j, timestamp, returncode, removals,
                   outcome, trail, normalizer>>

\* timestamp = get_latest_resource_timestamp(irods_env, source)
PublishTimestamp ==
    /\ pc = "timestamp"
    /\ Step("get_latest_resource_timestamp")
    /\ \E connected \in BOOLEAN :
          IF ~connected
          THEN Raised("NetworkException") /\ UNCHANGED timestamp
          ELSE IF resource_id \notin DOMAIN proxy
          THEN Raised("CollectionDoesNotExist") /\ UNCHANGED timestamp
          ELSE LET latest == get_latest_resource_timestamp(proxy[resource_id])
               IN  IF latest.raised # ""
                   THEN Raised(latest.raised) /\ UNCHANGED timestamp
                   ELSE /\ timestamp' = latest.value
                        /\ pc' = "iget"
                        /\ UNCHANGED <<error, i, outcome>>
    /\ UNCHANGED <<store, source_netcdf, destination_netcdf, destination_ids,
                   destination_timestamps, j, resource_id, returncode, start,
                   attempts, removals>>
    /\ UNCHANGED <<args, normalizer>>

\* What a failed iget may leave: nothing new, or the directory with the
\* first data objects of the collection.
IgetLeaves(cat, id, collection, clock) ==
    {cat} \cup {Put(cat, id, copied(cat, id, collection, count, clock)) :
                  count \in 0..(Len(names_of(collection)) - 1)}

\* iget_failed, were only a negative return code (a signal) a failure
iget_failed_signal_only(code) == code < 0

\* if proc.returncode:
iget_failed(code) == code # 0

\* the iget subprocess (which subprocess.Popen may fail to launch), and the
\* test of its return code
PublishIget ==
    /\ pc = "iget"
    /\ Step("iget")
    /\ \E launched \in BOOLEAN : \E code \in {0, 1} :
          IF ~launched
          THEN /\ Raised("FileNotFoundError")
               /\ UNCHANGED <<catalog, returncode>>
          ELSE /\ returncode' = [returncode EXCEPT ![resource_id] = code]
               /\ IF iget_failed(code)
                  THEN /\ catalog' \in IgetLeaves(catalog, resource_id, proxy[resource_id], now)
                       /\ Raised("NetCDFPublicationError")
                  ELSE /\ catalog' = Put(catalog, resource_id,
                                         copied(catalog, resource_id, proxy[resource_id],
                                                Len(names_of(proxy[resource_id])), now))
                       /\ pc' = "rchmod"
                       /\ UNCHANGED <<error, i, outcome>>
    /\ UNCHANGED <<proxy, now, tz, changes, source_netcdf, destination_netcdf,
                   destination_ids, destination_timestamps, j, resource_id, timestamp,
                   start, attempts, removals>>
    /\ UNCHANGED <<args, normalizer>>

\* rchmod(destination, FILE_MODE)
PublishRchmod ==
    /\ pc = "rchmod"
    /\ Step("rchmod")
    /\ \E permitted \in BOOLEAN :
          IF ~permitted
          THEN Raised("PermissionError") /\ UNCHANGED catalog
          ELSE /\ catalog' = [catalog EXCEPT ![resource_id] = rchmod(@, FILE_MODE)]
               /\ pc' = "replace_spaces_in_names"
               /\ UNCHANGED <<error, i, outcome>>
    /\ UNCHANGED <<proxy, now, tz, changes, source_netcdf, destination_netcdf,
                   destination_ids, destination_timestamps, j, resource_id, timestamp,
                   returncode, start, attempts, removals>>
    /\ UNCHANGED <<args, normalizer>>

\* replace_spaces_in_names(destination)
PublishReplaceSpaces ==
    /\ pc = "replace_spaces_in_names"
    /\ Step("replace_spaces_in_names")
    /\ \E permitted \in BOOLEAN :
          IF ~permitted
          THEN Raised("OSError") /\ UNCHANGED catalog
          ELSE /\ catalog' = [catalog EXCEPT ![resource_id] = replace_spaces_in_names(@, now)]
               /\ pc' = "utime"
               /\ UNCHANGED <<error, i, outcome>>
    /\ UNCHANGED <<proxy, now, tz, changes, source_netcdf, destination_netcdf,
                   destination_ids, destination_timestamps, j, resource_id, timestamp,
                   returncode, start, attempts, removals>>
    /\ UNCHANGED <<args, normalizer>>

\* os.utime(destination, ...), and the return
PublishUtime ==
    /\ pc = "utime"
    /\ Step("utime")
    /\ \E permitted \in BOOLEAN :
          IF ~permitted
          THEN Raised("PermissionError") /\ UNCHANGED catalog
          ELSE /\ catalog' = [catalog EXCEPT ![resource_id] = utime(@, timestamp_of(timestamp, tz))]
               /\ Returned
    /\ UNCHANGED <<proxy, now, tz, changes, source_netcdf, destination_netcdf,
                   destination_ids, destination_timestamps, j, resource_id, timestamp,
                   returncode, start, attempts, removals>>
    /\ UNCHANGED <<args, normalizer>>

(* ----------------------- the removal phase ---------------------------- *)

\* destination_netcdf = scan_destination(catalog_path), after the loop
Rescan ==
    /\ pc = "rescan"
    /\ \E resources \in Orders(glob(catalog)) :
          destination_netcdf' = scan_destination(catalog, resources, tz)
    /\ j' = 1
    /\ pc' = "remove_loop"
    /\ UNCHANGED <<store, error, source_netcdf, destination_ids, destination_timestamps,
                   i, resource_id, timestamp, history>>
    /\ UNCHANGED <<args, normalizer>>

\* orphan, were the membership test the wrong way round
orphan_inverted(destination_id, source) ==
    LET source_ids == [k \in DOMAIN source |-> source[k][1]]
    IN  destination_id \in Range(source_ids)

\* orphan, were every identifier the first destination scan did not list
\* removed as well
orphan_or_new(destination_id, source) ==
    LET source_ids == [k \in DOMAIN source |-> source[k][1]]
    IN  destination_id \notin Range(source_ids) \/ destination_id \notin Range(destination_ids)

\* orphan, were an identifier whose bulk copy failed in the run removed too
orphan_or_failed(destination_id, source) ==
    LET source_ids == [k \in DOMAIN source |-> source[k][1]]
    IN  destination_id \notin Range(source_ids) \/ returncode[destination_id] # 0

\* whether the removal loop removes destination_id
orphan(destination_id, source) ==
    LET source_ids == [k \in DOMAIN source |-> source[k][1]]
    IN  destination_id \notin Range(source_ids)

\* remove_resource: shutil.rmtree(catalog_path/resource_id)
remove_resource(cat, id) == Drop(cat, id)

\* RemoveRaised, were the failure logged and the loop to go on
RemoveRaised_handled(e) ==
    /\ j' = j + 1
    /\ UNCHANGED <<pc, error>>

\* remove_resource raises e: nothing in sync_resources catches it
RemoveRaised(e) ==
    /\ Uncaught(e)
    /\ UNCHANGED j

\* for destination_id, destination_timestamp in destination_netcdf: ...
RemoveLoop ==
    /\ pc = "remove_loop"
    /\ IF j > Len(destination_netcdf)
       THEN /\ pc' = "done"
            /\ UNCHANGED <<catalog, error, j, removals>>
       ELSE LET destination_id == destination_netcdf[j][1]
            IN  IF orphan(destination_id, source_netcdf)
                THEN /\ removals' = [removals EXCEPT ![destination_id] = @ + 1]
                     /\ \E permitted \in BOOLEAN :
                           IF ~permitted
                           THEN /\ RemoveRaised("PermissionError")
                                /\ UNCHANGED catalog
                           ELSE /\ catalog' = remove_resource(catalog, destination_id)
                                /\ j' = j + 1
                                /\ UNCHANGED <<pc, error>>
                ELSE /\ j' = j + 1
                     /\ UNCHANGED <<catalog, pc, error, removals>>
    /\ UNCHANGED <<proxy, now, tz, changes, source_netcdf, destination_netcdf,
                   destination_ids, destination_timestamps, i, resource_id, timestamp,
                   returncode, start, attempts, outcome, trail>>
    /\ UNCHANGED <<args, normalizer>>

\* the process ends: sync_resources returned, or an exception left it
Exit ==
    /\ pc \in {"done", "aborted"}
    /\ pc' = "idle"
    /\ error' = ""
    /\ source_netcdf' = <<>>
    /\ destination_netcdf' = <<>>
    /\ destination_ids' = <<>>
    /\ destination_timestamps' = <<>>
    /\ i' = 0
    /\ j' = 0
    /\ resource_id' = <<>>
    /\ timestamp' = 0
    /\ returncode' = [id \in ResourceIds |-> 0]
    /\ start' = <<>>
    /\ attempts' = [id \in ResourceIds |-> 0]
    /\ removals' = [id \in ResourceIds |-> 0]
    /\ outcome' = [id \in ResourceIds |-> ""]
    /\ trail' = [id \in ResourceIds |-> <<>>]
    /\ args' = Namespace(<<>>)
    /\ UNCHANGED <<store, normalizer>>

Next ==
    \/ \E n \in ResourceIds : Modify(n) /\ UNCHANGED ledger
    \/ \E n \in ResourceIds : \E m \in Annotations : Annotate(n, m) /\ UNCHANGED ledger
    \/ \E n \in ResourceIds : Delete(n) /\ UNCHANGED ledger
    \/ \E n \in ResourceIds : \E w \in Shapes(now) : Create(n, Public, w) /\ UNCHANGED ledger
    \/ SyncStart /\ UNCHANGED ledger
    \/ ScanSource /\ UNCHANGED ledger
    \/ ScanDestination /\ UNCHANGED ledger
    \/ PublishLoop /\ UNCHANGED ledger
    \/ PublishTimestamp /\ UNCHANGED ledger
    \/ PublishIget /\ UNCHANGED ledger
    \/ PublishRchmod /\ UNCHANGED ledger
    \/ PublishReplaceSpaces /\ UNCHANGED ledger
    \/ PublishUtime /\ UNCHANGED ledger
    \/ Rescan /\ UNCHANGED ledger
    \/ RemoveLoop /\ UNCHANGED ledger
    \/ Exit /\ UNCHANGED ledger

Spec == Init /\ [][Next]_vars

(* ------------------ the source scan over varied stores ---------------- *)

AllShapes(t) == {TopNc(t), NestedNc(t), SpaceNc(t), TxtOnly(t), NoDot(t), Empty}

\* stores for the scan: one resource under every annotation and shape, at
\* two times; another, and the housekeeping collection, under a few
ScanStores ==
    LET choices(n) ==
            IF n = IdA
            THEN {Collection(m, w) : m \in MetadataChoices, w \in AllShapes(0) \cup AllShapes(1)}
            ELSE IF n = IdB
            THEN {Collection(Public, TopNc(1)), Collection({}, TopNc(1)),
                  Collection(Public, TxtOnly(1))}
            ELSE {Collection(Public, TopNc(0)), Collection({}, TxtOnly(0))}
    IN  UNION {{s \in [D -> UNION {choices(n) : n \in D}] : \A n \in D : s[n] \in choices(n)} :
                 D \in SUBSET SourceNames}

InitScan ==
    /\ proxy \in ScanStores
    /\ tz = 0
    /\ catalog \in InitialCatalogs(tz)
    /\ now = 1
    /\ changes = 0
    /\ pc = "idle"
    /\ error = ""
    /\ source_netcdf = <<>>
    /\ destination_netcdf = <<>>
    /\ destination_ids = <<>>
    /\ destination_timestamps = <<>>
    /\ i = 0
    /\ j = 0
    /\ resource_id = <<>>
    /\ timestamp = 0
    /\ returncode = [id \in ResourceIds |-> 0]
    /\ start = <<>>
    /\ attempts = [id \in ResourceIds |-> 0]
    /\ removals = [id \in ResourceIds |-> 0]
    /\ outcome = [id \in ResourceIds |-> ""]
    /\ trail = [id \in ResourceIds |-> <<>>]
    /\ args = Namespace(<<>>)
    /\ NoTree
    /\ NoLedger

NextScan ==
    \/ SyncStart /\ UNCHANGED ledger
    \/ ScanSource /\ UNCHANGED ledger
    \/ Exit /\ UNCHANGED ledger

SpecScan == InitScan /\ [][NextScan]_vars

(* ------------------ what runs leave to later runs --------------------- *)

\* What a step leaves in the ledger.  An entry keeps the mtime os.utime
\* gave it until a copy or a rename modifies the directory, or it is
\* removed; os.utime, and the return of publish_resource, stamps it.  A
\* publish of a sync run that ends with NetCDFPublicationError is a failed
\* one until a publish of the id returns, the entry is removed or the id
\* leaves the source inventory.  A run has converged when sync_resources returned
\* with no publish failed, until the source store changes or the program is
\* called for one resource id.
Ledger ==
    LET ended(id) == outcome'[id] # outcome[id] /\ outcome'[id] # ""
        removed == DOMAIN catalog \ DOMAIN catalog'
        untouched == {id \in stamped :
                        /\ id \in DOMAIN catalog'
                        /\ catalog'[id].mtime = catalog[id].mtime
                        /\ catalog'[id].files = catalog[id].files}
    IN  /\ stamped' = untouched \cup
                       {id \in ResourceIds : ended(id) /\ outcome'[id] = "published"}
        /\ failed' =
              IF pc = "scan_source" /\ pc' = "scan_destination"
              THEN failed \cap {source_netcdf'[k][1] : k \in DOMAIN source_netcdf'}
              ELSE ((failed \ removed)
                       \ {id \in ResourceIds : ended(id) /\ outcome'[id] = "published"})
                   \cup {id \in ResourceIds :
                           /\ args.resource_id = <<>>
                           /\ ended(id) /\ outcome'[id] = "NetCDFPublicationError"}
        /\ converged' =
              IF pc \in {"done", "aborted"} /\ pc' = "idle"
              THEN /\ pc = "done"
                   /\ args.resource_id = <<>>
                   /\ \A id \in ResourceIds : outcome[id] \in {"", "published"}
              ELSE IF proxy' # proxy \/ args'.resource_id # <<>>
              THEN FALSE
              ELSE converged

InitRuns ==
    /\ proxy \in InitialStores
    /\ tz \in TimeZones
    /\ catalog \in InitialCatalogs(tz)
    /\ now = 1
    /\ changes = 0
    /\ pc = "idle"
    /\ error = ""
    /\ source_netcdf = <<>>
    /\ destination_netcdf = <<>>
    /\ destination_ids = <<>>
    /\ destination_timestamps = <<>>
    /\ i = 0
    /\ j = 0
    /\ resource_id = <<>>
    /\ timestamp = 0
    /\ returncode = [id \in ResourceIds |-> 0]
    /\ start = <<>>
    /\ attempts = [id \in ResourceIds |-> 0]
    /\ removals = [id \in ResourceIds |-> 0]
    /\ outcome = [id \in ResourceIds |-> ""]
    /\ trail = [id \in ResourceIds |-> <<>>]
    /\ args = Namespace(<<>>)
    /\ NoTree
    /\ stamped = glob(catalog)
    /\ failed = {}
    /\ converged = FALSE

NextRuns ==
    \/ \E n \in ResourceIds : Modify(n) /\ Ledger
    \/ \E n \in ResourceIds : \E m \in Annotations : Annotate(n, m) /\ Ledger
    \/ \E n \in ResourceIds : Delete(n) /\ Ledger
    \/ \E n \in ResourceIds : \E w \in Shapes(now) : Create(n, Public, w) /\ Ledger
    \/ \E id \in ResourceIds : MainPublish(id) /\ Ledger
    \/ SyncStart /\ Ledger
    \/ ScanSource /\ Ledger
    \/ ScanDestination /\ Ledger
    \/ PublishLoop /\ Ledger
    \/ PublishTimestamp /\ Ledger
    \/ PublishIget /\ Ledger
    \/ PublishRchmod /\ Ledger
    \/ PublishReplaceSpaces /\ Ledger
    \/ PublishUtime /\ Ledger
    \/ Rescan /\ Ledger
    \/ RemoveLoop /\ Ledger
    \/ Exit /\ Ledger

SpecRuns == InitRuns /\ [][NextRuns]_vars

(* ------------- the program called for one resource id ----------------- *)

\* a collection whose data objects, at three places, differ in age
Aged(s, t, u) == << <<DataObject(<<"d",".","n","c">>, s), DataObject(<<"r",".","t","x","t">>, t)>>,
                    <<DataObject(<<"r",".","t","x","t">>, u)>> >>

MainShapes == AllShapes(0) \cup AllShapes(1) \cup {Aged(s, t, u) : s \in 0..2, t \in 0..2, u \in 0..2}

\* stores for the publish of one resource: one collection of any shape,
\* public or not, and another that is there or is not
MainStores ==
    {s \in UNION {[D -> {Collection(m, w) : m \in Annotations, w \in MainShapes}] :
                    D \in {{IdA, Bags}, {IdA, IdB, Bags}}} :
        /\ s[Bags] = Collection(Public, TopNc(0))
        /\ IdB \in DOMAIN s => s[IdB] = Collection(Public, TopNc(0))}

InitMain ==
    /\ proxy \in MainStores
    /\ tz \in TimeZones
    /\ catalog \in InitialCatalogs(tz)
    /\ now = 1
    /\ changes = 0
    /\ pc = "idle"
    /\ error = ""
    /\ source_netcdf = <<>>
    /\ destination_netcdf = <<>>
    /\ destination_ids = <<>>
    /\ destination_timestamps = <<>>
    /\ i = 0
    /\ j = 0
    /\ resource_id = <<>>
    /\ timestamp = 0
    /\ returncode = [id \in ResourceIds |-> 0]
    /\ start = <<>>
    /\ attempts = [id \in ResourceIds |-> 0]
    /\ removals = [id \in ResourceIds |-> 0]
    /\ outcome = [id \in ResourceIds |-> ""]
    /\ trail = [id \in ResourceIds |-> <<>>]
    /\ args = Namespace(<<>>)
    /\ NoTree
    /\ NoLedger

NextMain ==
    \/ \E id \in ResourceIds : MainPublish(id) /\ UNCHANGED ledger
    \/ PublishTimestamp /\ UNCHANGED ledger
    \/ PublishIget /\ UNCHANGED ledger
    \/ PublishRchmod /\ UNCHANGED ledger
    \/ PublishReplaceSpaces /\ UNCHANGED ledger
    \/ PublishUtime /\ UNCHANGED ledger
    \/ Exit /\ UNCHANGED ledger

SpecMain == InitMain /\ [][NextMain]_vars

(* ------------- replace_spaces_in_names over directory trees ----------- *)

\* A directory tree below a root: a function from the relative paths that
\* exist (sequences of names) to nodes.  A node keeps its kind and the path
\* at which the entry was when the tree was made, which tells entries apart
\* through renames.
Node(k, p) == [kind |-> k, origin |-> p]

AB == <<"a"," ","b">>

A__B == <<"a","_","_","b">>

CD == <<"c"," ","d">>

E == <<"e">>

\* two names with a space that str.replace maps to one name
S__ == <<" ","_","_">>

__S == <<"_","_"," ">>

TopNames == {AB, A__B, CD, E, S__, __S}

ChildNames == {CD, E}

Paths == {<<a>> : a \in TopNames} \cup {<<a, b>> : a \in TopNames, b \in ChildNames}

\* os.path.dirname and os.path.basename of a relative path
dirname(p) == SubSeq(p, 1, Len(p) - 1)

basename(p) == p[Len(p)]

\* the paths at which an entry can be added to tree t
Addable(t) ==
    {p \in Paths \ DOMAIN t :
        dirname(p) = <<>> \/ (dirname(p) \in DOMAIN t /\ t[dirname(p)].kind = "dir")}

RECURSIVE Trees(_)
\* the trees of at most `size` entries (and at least one)
Trees(size) ==
    IF size = 1
    THEN {[q \in {p} |-> Node(k, p)] : p \in Addable(<<>>), k \in {"file", "dir"}}
    ELSE LET smaller == Trees(size - 1)
         IN  smaller \cup
             UNION {{Put(t, p, Node(k, p)) : p \in Addable(t), k \in {"file", "dir"}} :
                      t \in smaller}

\* the entries of directory top of tree t, by kind
listdir(t, top, k) ==
    {basename(p) : p \in {q \in DOMAIN t : dirname(q) = top /\ t[q].kind = k}}

RECURSIVE os_walk(_, _)
RECURSIVE walk_each(_, _, _)
\* os.walk(top), top-down: the lists it can yield, a directory's entries
\* listed in any order
os_walk(t, top) ==
    UNION {{<<[root |-> top, dirs |-> dirs, files |-> files]>> \o below :
              files \in Orders(listdir(t, top, "file")),
              below \in walk_each(t, top, dirs)} :
           dirs \in Orders(listdir(t, top, "dir"))}

\* the walks of the directories dirs of top, one after the other
walk_each(t, top, dirs) ==
    IF dirs = <<>>
    THEN {<<>>}
    ELSE {first \o rest : first \in os_walk(t, top \o <<Head(dirs)>>),
                          rest \in walk_each(t, top, Tail(dirs))}

\* list.reverse
reverse(list) == [k \in DOMAIN list |-> list[Len(list) + 1 - k]]

RECURSIVE loops(_)
\* for root, dirs, files in walk: for f in files ... for d in dirs ...: the
\* entries in the order the loops come to them
loops(walk) ==
    IF walk = <<>>
    THEN <<>>
    ELSE LET leaf == Head(walk)
         IN  [k \in DOMAIN leaf.files |-> [root |-> leaf.root, name |-> leaf.files[k]]]
             \o [k \in DOMAIN leaf.dirs |-> [root |-> leaf.root, name |-> leaf.dirs[k]]]
             \o loops(Tail(walk))

\* q is p or below p
under(p, q) == Len(q) >= Len(p) /\ SubSeq(q, 1, Len(p)) = p

\* where the entry at q, under src, is when src has become dst
moved(q, src, dst) == dst \o SubSeq(q, Len(src) + 1, Len(q))

\* tree t with the subtree at src moved to dst
move(t, src, dst) ==
    LET stay == {q \in DOMAIN t : ~under(src, q)}
        gone == {q \in DOMAIN t : under(src, q)}
    IN  [q \in stay \cup {moved(g, src, dst) : g \in gone} |->
            IF q \in stay THEN t[q] ELSE t[CHOOSE g \in gone : moved(g, src, dst) = q]]

\* os.rename(src, dst) on a POSIX file system: a file takes the place of a
\* file of the name dst, a directory that of an empty directory; any other
\* entry at dst makes the call fail
os_rename(t, src, dst) ==
    IF src \notin DOMAIN t
    THEN Raise("FileNotFoundError")
    ELSE IF dst \notin DOMAIN t
    THEN Return(move(t, src, dst))
    ELSE IF t[src].kind = "file" /\ t[dst].kind = "dir"
    THEN Raise("IsADirectoryError")
    ELSE IF t[src].kind = "dir" /\ t[dst].kind = "file"
    THEN Raise("NotADirectoryError")
    ELSE IF \E q \in DOMAIN t : q # dst /\ under(dst, q)
    THEN Raise("OSError")
    ELSE Return(move(Drop(t, dst), src, dst))

\* replaced = 0; walk = list(os.walk(path)); walk.reverse()
NamesCall ==
    /\ pc \in {"idle", "done", "aborted"}
    /\ calls < MaxCalls
    /\ \E walk \in os_walk(tree, <<>>) : todo' = loops(reverse(walk))
    /\ at' = 1
    /\ replaced' = 0
    /\ before' = tree
    /\ calls' = calls + 1
    /\ pc' = "rename"
    /\ error' = ""
    /\ UNCHANGED <<store, locals, history, args, tree, found>>

\* the body of the loops for one entry: if " " in f: os.rename(...);
\* replaced += 1
NamesRename ==
    /\ pc = "rename"
    /\ at <= Len(todo)
    /\ LET root == todo[at].root
           name == todo[at].name
           renamed == os_rename(tree, root \o <<name>>,
                                root \o <<replace(name, " ", <<"_","_">>)>>)
       IN  IF ~HasSpace(name)
           THEN /\ at' = at + 1
                /\ UNCHANGED <<tree, replaced, pc, error>>
           ELSE IF renamed.raised # ""
           THEN /\ Uncaught(renamed.raised)
                /\ UNCHANGED <<tree, replaced, at>>
           ELSE /\ tree' = renamed.value
                /\ replaced' = replaced + 1
                /\ at' = at + 1
                /\ UNCHANGED <<pc, error>>
    /\ UNCHANGED <<store, locals, history, args, found, before, todo, calls>>

\* return None
NamesReturn ==
    /\ pc = "rename"
    /\ at > Len(todo)
    /\ pc' = "done"
    /\ UNCHANGED <<store, error, locals, history, args, normalizer>>

InitNames ==
    /\ proxy = [x \in {Bags} |-> Collection(Public, TopNc(0))]
    /\ tz = 0
    /\ catalog = [x \in {Stray} |-> Entry(0, "umask", {})]
    /\ now = 1
    /\ changes = 0
    /\ pc = "idle"
    /\ error = ""
    /\ source_netcdf = <<>>
    /\ destination_netcdf = <<>>
    /\ destination_ids = <<>>
    /\ destination_timestamps = <<>>
    /\ i = 0
    /\ j = 0
    /\ resource_id = <<>>
    /\ timestamp = 0
    /\ returncode = [id \in ResourceIds |-> 0]
    /\ start = <<>>
    /\ attempts = [id \in ResourceIds |-> 0]
    /\ removals = [id \in ResourceIds |-> 0]
    /\ outcome = [id \in ResourceIds |-> ""]
    /\ trail = [id \in ResourceIds |-> <<>>]
    /\ args = Namespace(<<>>)
    /\ tree \in Trees(MaxEntries)
    /\ found = tree
    /\ before = tree
    /\ todo = <<>>
    /\ at = 0
    /\ replaced = 0
    /\ calls = 0
    /\ NoLedger

NextNames ==
    \/ NamesCall /\ UNCHANGED ledger
    \/ NamesRename /\ UNCHANGED ledger
    \/ NamesReturn /\ UNCHANGED ledger

SpecNames == InitNames /\ [][NextNames]_vars

(* ===================================================================== *)
(*                              properties                               *)
(* ===================================================================== *)

\* the identifiers of an inventory
ids_of(inventory) == {inventory[k][1] : k \in DOMAIN inventory}

\* the publish loop has gone through every source item
LoopOver == pc \in {"rescan", "remove_loop", "done"}

\* the publish loop is beyond position k of source_netcdf
Passed(k) == k < i \/ LoopOver

\* where a run was when an exception ended it
AbortedInScan == pc = "aborted" /\ i = 0

AbortedInPublish == pc = "aborted" /\ i >= 1 /\ j = 0

AbortedInRemoval == pc = "aborted" /\ j >= 1

\* the identifiers the destination scan at the start of the run listed
StartIds == Range(destination_ids)

\* the timestamp the destination scan at the start of the run read for X,
\* from the modification time of the entry the run found
StartTimestamp(X) == fromtimestamp(start[X].mtime, tz)

\* C1 (add case): an identifier X of the source inventory that the
\* destination scan at the start of the run did not list gets exactly one
\* call of publish_resource once the publish loop has gone past it (never
\* more than one before), and no call of remove_resource in the run.
C1_AddCase ==
    \A k \in DOMAIN source_netcdf :
        LET X == source_netcdf[k][1]
        IN  (i >= 1 /\ X \notin StartIds) =>
                /\ removals[X] = 0
                /\ attempts[X] <= 1
                /\ Passed(k) => attempts[X] = 1
                /\ LoopOver => i = Len(source_netcdf) + 1

C1_Witness ==
    /\ pc = "done"
    /\ \E k \in DOMAIN source_netcdf :
          /\ source_netcdf[k][1] \notin StartIds
          /\ attempts[source_netcdf[k][1]] = 1
          /\ removals[source_netcdf[k][1]] = 0

\* C2 (stale case): an identifier X listed by both scans, T2 in the source
\* inventory and T1 in the destination inventory, gets a call of
\* publish_resource when the loop goes past it if T2 > T1, and none in the
\* run if T2 = T1 or T2 < T1.
C2_StaleCase ==
    \A k \in DOMAIN source_netcdf :
        LET X == source_netcdf[k][1]
            T2 == source_netcdf[k][2]
        IN  (i >= 1 /\ X \in StartIds) =>
                /\ attempts[X] <= 1
                /\ T2 <= StartTimestamp(X) => attempts[X] = 0
                /\ (T2 > StartTimestamp(X) /\ Passed(k)) => attempts[X] = 1

\* a run that passed over an entry newer than its source and published a
\* stale one
C2_Witness ==
    /\ pc = "done"
    /\ \E k, l \in DOMAIN source_netcdf :
          LET X == source_netcdf[k][1]
              Y == source_netcdf[l][1]
          IN  /\ X \in StartIds /\ Y \in StartIds
              /\ source_netcdf[k][2] < StartTimestamp(X)
              /\ attempts[X] = 0
              /\ source_netcdf[l][2] > StartTimestamp(Y)
              /\ attempts[Y] = 1

\* an entry with the timestamp of its source is passed over
C2_EqualReached ==
    /\ pc = "done"
    /\ \E k \in DOMAIN source_netcdf :
          /\ source_netcdf[k][1] \in StartIds
          /\ source_netcdf[k][2] = StartTimestamp(source_netcdf[k][1])
          /\ attempts[source_netcdf[k][1]] = 0

\* C3 (orphan removal): when sync_resources returns, every identifier the
\* destination scan listed at the start of the run and the source inventory
\* does not contain has had one call of remove_resource and is no longer in
\* the catalog; the removal loop goes on only past removed entries.
C3_OrphanRemoved ==
    /\ pc = "done" =>
          \A Y \in StartIds :
              Y \notin ids_of(source_netcdf) =>
                  Y \notin DOMAIN catalog /\ removals[Y] = 1
    /\ pc = "remove_loop" =>
          \A l \in DOMAIN destination_netcdf :
              (l < j /\ destination_netcdf[l][1] \notin ids_of(source_netcdf)) =>
                  destination_netcdf[l][1] \notin DOMAIN catalog

\* an orphan whose collection is still in the store, no longer public
C3_Witness ==
    /\ pc = "done"
    /\ \E Y \in StartIds :
          /\ Y \notin ids_of(source_netcdf)
          /\ Y \in DOMAIN proxy
          /\ proxy[Y].metadata = {}
          /\ Y \notin DOMAIN catalog

\* whether source item k is due for publish: new, or newer than its entry
Due(k) ==
    LET X == source_netcdf[k][1]
    IN  X \notin StartIds \/ source_netcdf[k][2] > StartTimestamp(X)

\* C4 (isolation of a bulk-copy failure): a NetCDFPublicationError never
\* ends the run; after the publish of source item A ended with it, the loop
\* is beyond A, every later item B that is due is published once the loop
\* has gone past it, the loop ends only beyond the last item, and a B whose
\* publish returned is listed by the destination scan after the loop.
C4_CopyFailureIsolated ==
    /\ error # "NetCDFPublicationError"
    /\ \A k \in DOMAIN source_netcdf :
          LET A == source_netcdf[k][1]
          IN  outcome[A] = "NetCDFPublicationError" =>
                /\ i > k
                /\ LoopOver => i = Len(source_netcdf) + 1
                /\ \A l \in DOMAIN source_netcdf :
                      LET B == source_netcdf[l][1]
                      IN  l > k =>
                            /\ (Passed(l) /\ Due(l)) => attempts[B] = 1
                            /\ (j >= 1 /\ outcome[B] = "published") =>
                                  B \in ids_of(destination_netcdf)

C4_Witness ==
    /\ pc = "done"
    /\ \E k, l \in DOMAIN source_netcdf :
          /\ k < l
          /\ returncode[source_netcdf[k][1]] # 0
          /\ outcome[source_netcdf[k][1]] = "NetCDFPublicationError"
          /\ outcome[source_netcdf[l][1]] = "published"
          /\ source_netcdf[l][1] \in ids_of(destination_netcdf)

\* C5 as claimed: whatever step of a publish fails, the failure is caught
\* and the run goes on, so no run ends inside the publish loop.
C5_EveryFailureIsolated == ~AbortedInPublish

\* C5 as amended: only the failure of the bulk copy is isolated.  After a
\* NetCDFPublicationError the loop is beyond the item; the failure of any
\* other step of publish_resource ends the run at that item with that
\* exception, and no later item is published and nothing is removed.
C5_OnlyCopyFailureIsolated ==
    \A k \in DOMAIN source_netcdf :
        LET X == source_netcdf[k][1]
        IN  /\ outcome[X] = "NetCDFPublicationError" =>
                /\ trail[X] = <<"get_latest_resource_timestamp", "iget">>
                /\ i > k
                /\ error # "NetCDFPublicationError"
            /\ outcome[X] \notin {"", "published", "NetCDFPublicationError"} =>
                /\ AbortedInPublish
                /\ error = outcome[X]
                /\ i = k
                /\ \A l \in DOMAIN source_netcdf :
                      l > k => attempts[source_netcdf[l][1]] = 0
                /\ \A id \in ResourceIds : removals[id] = 0

\* the normalization of names fails for the first of two items that are due
C5_Witness ==
    /\ AbortedInPublish
    /\ i < Len(source_netcdf)
    /\ outcome[source_netcdf[i][1]] = "OSError"
    /\ Due(i + 1)
    /\ attempts[source_netcdf[i + 1][1]] = 0

\* what the specification asks of a collection of the inventory: not a
\* housekeeping name, annotated isPublic = true, and at some depth a file
\* whose name ends in .nc, in either case
Eligible(n) ==
    /\ n \notin {<<"b","a","g","s">>, <<"t","e","m","p">>, <<"z","i","p","s">>}
    /\ [name |-> "isPublic", value |-> "true"] \in proxy[n].metadata
    /\ \E a \in DOMAIN proxy[n].walk : \E b \in DOMAIN proxy[n].walk[a] :
          LET f == proxy[n].walk[a][b].name
          IN  /\ Len(f) >= 3
              /\ f[Len(f) - 2] = "."
              /\ f[Len(f) - 1] \in {"n", "N"}
              /\ f[Len(f)] \in {"c", "C"}

\* C6 (source filter): the inventory scan_source returns lists exactly the
\* collections of the store that are not excluded, carry the annotation
\* with exactly the expected value and hold a file with the extension at
\* some depth, each once, whatever their timestamps.
C6_SourceFilter ==
    pc = "scan_destination" =>
        /\ ids_of(source_netcdf) = {n \in DOMAIN proxy : Eligible(n)}
        /\ Len(source_netcdf) = Cardinality(ids_of(source_netcdf))

\* a resource kept for an upper-case extension below the top, beside an
\* excluded collection that is public with NetCDF and a public resource
\* without NetCDF
C6_Witness ==
    /\ pc = "scan_destination"
    /\ DOMAIN proxy = SourceNames
    /\ proxy[IdA] = Collection(Public, NestedNc(1))
    /\ proxy[Bags] = Collection(Public, TopNc(0))
    /\ proxy[IdB] = Collection(Public, TxtOnly(1))
    /\ ids_of(source_netcdf) = {IdA}

\* the steps of publish_resource, in the order of the code
PublishSteps ==
    <<"get_latest_resource_timestamp", "iget", "rchmod", "replace_spaces_in_names", "utime">>

\* C7 (a failed bulk copy): when iget returns a non-zero code,
\* publish_resource ends with NetCDFPublicationError after the steps
\* get_latest_resource_timestamp and iget alone; the entry is left as the
\* copy left it: what the run found under it is still there, and it is
\* either untouched or modified by the copy alone (mode of the umask,
\* modified at the time of the copy, names as in the source).
C7_CopyFailureStops ==
    \A id \in ResourceIds :
        returncode[id] # 0 =>
            /\ outcome[id] = "NetCDFPublicationError"
            /\ trail[id] = SubSeq(PublishSteps, 1, 2)
            /\ id \in DOMAIN start =>
                  id \in DOMAIN catalog /\ start[id].files \subseteq catalog[id].files
            /\ id \in DOMAIN catalog =>
                  \/ id \in DOMAIN start /\ catalog[id] = start[id]
                  \/ /\ catalog[id].mode = "umask"
                     /\ catalog[id].mtime = now
                     /\ catalog[id].files \subseteq
                           (IF id \in DOMAIN start THEN start[id].files ELSE {})
                              \cup Range(names_of(proxy[id]))

\* a run ends with the directory a failed copy created
C7_Witness ==
    /\ pc = "done"
    /\ \E id \in ResourceIds :
          /\ returncode[id] # 0
          /\ id \notin DOMAIN start
          /\ id \in DOMAIN catalog
          /\ catalog[id].mode = "umask"

\* C8 (order of a successful publish): the steps of publish_resource are
\* taken in the order resolve, copy, normalize permissions, normalize
\* names, stamp; when it has returned, the entry has the mode, no name with
\* a space, and its modification time reads back as the source's latest
\* timestamp, the one resolved before the copy.
C8_PublishOrder ==
    \A id \in ResourceIds :
        /\ trail[id] = SubSeq(PublishSteps, 1, Len(trail[id]))
        /\ outcome[id] = "published" =>
              /\ trail[id] = PublishSteps
              /\ id \in DOMAIN catalog
              /\ catalog[id].mode = FILE_MODE
              /\ \A f \in catalog[id].files : ~HasSpace(f)
              /\ fromtimestamp(catalog[id].mtime, tz) =
                    get_latest_resource_timestamp(proxy[id]).value
              /\ id = resource_id => fromtimestamp(catalog[id].mtime, tz) = timestamp

\* a publish returned for a resource whose names were normalized, which
\* modified the entry after the copy
C8_Witness ==
    /\ pc = "publish_loop"
    /\ resource_id \in ResourceIds
    /\ outcome[resource_id] = "published"
    /\ <<"a","_","_","b",".","n","c">> \in catalog[resource_id].files
    /\ catalog[resource_id].mtime # now

\* C9 (removal failures are fatal): a run that an exception ended in the
\* removal phase ended at an orphan that is still in the catalog, with the
\* exception remove_resource raised, and no entry later in the re-scanned
\* inventory has been removed; the removal loop never goes on past an
\* orphan it did not remove.
C9_RemovalFailureFatal ==
    /\ AbortedInRemoval =>
          /\ error = "PermissionError"
          /\ j \in DOMAIN destination_netcdf
          /\ destination_netcdf[j][1] \notin ids_of(source_netcdf)
          /\ destination_netcdf[j][1] \in DOMAIN catalog
          /\ \A l \in DOMAIN destination_netcdf :
                l > j => /\ removals[destination_netcdf[l][1]] = 0
                         /\ destination_netcdf[l][1] \in DOMAIN catalog
    /\ pc \in {"remove_loop", "done"} =>
          \A l \in DOMAIN destination_netcdf :
              (l < j /\ destination_netcdf[l][1] \notin ids_of(source_netcdf)) =>
                  destination_netcdf[l][1] \notin DOMAIN catalog

\* the removal of the first of two orphans failed
C9_Witness ==
    /\ AbortedInRemoval
    /\ j < Len(destination_netcdf)
    /\ destination_netcdf[j + 1][1] \notin ids_of(source_netcdf)
    /\ destination_netcdf[j + 1][1] \in DOMAIN catalog
    /\ removals[destination_netcdf[j][1]] = 1

\* C10 (scanning is all or nothing): a run that the source scan's failure
\* ended has published nothing, removed nothing and left the catalog as it
\* found it; a run that goes beyond the scan holds the whole inventory of
\* the store.
C10_ScanFailureAborts ==
    /\ AbortedInScan =>
          /\ error # ""
          /\ source_netcdf = <<>>
          /\ catalog = start
          /\ \A id \in ResourceIds : attempts[id] = 0 /\ removals[id] = 0
    /\ (pc \notin {"idle", "scan_source"} /\ ~AbortedInScan) =>
          ids_of(source_netcdf) = {n \in DOMAIN proxy : Eligible(n)}

\* the scan failed in a run that had a resource to publish and an orphan
\* to remove
C10_Witness ==
    /\ AbortedInScan
    /\ \E n \in DOMAIN proxy : Eligible(n) /\ n \notin DOMAIN catalog
    /\ \E n \in glob(catalog) : n \notin DOMAIN proxy

(* ------------------- properties of the name normalization ------------- *)

\* no name below the root of tree t contains a space
Normalized(t) == \A p \in DOMAIN t : ~HasSpace(basename(p))

\* a path with each space of each component replaced by two underscores
normal(p) == [k \in DOMAIN p |-> replace(p[k], " ", <<"_","_">>)]

\* a call of replace_spaces_in_names on the tree is over: it returned, or
\* an exception left it
NamesOver == calls >= 1 /\ pc \in {"done", "aborted"}

\* C11 (idempotent normalization), as claimed for every tree: after
\* replace_spaces_in_names no name below the root contains a space, and a
\* second call renames nothing and leaves the tree as it was.
C11_IdempotentNormalization ==
    NamesOver =>
        /\ Normalized(tree)
        /\ calls >= 2 => (tree = before /\ replaced = 0)

\* what holds of C11: a call that returns leaves no name with a space, and
\* a call after it renames nothing
C11_ReturnedNormalized ==
    (calls >= 1 /\ pc = "done") =>
        /\ Normalized(tree)
        /\ (calls >= 2 /\ Normalized(before)) => (tree = before /\ replaced = 0)

\* a call left by an exception leaves a directory of a name with a space
C11_Witness ==
    /\ pc = "aborted"
    /\ calls = 1
    /\ error = "OSError"
    /\ \E p \in DOMAIN tree : HasSpace(basename(p)) /\ tree[p].kind = "dir"

\* every rename still to come names a path that exists
RenamesOnExistingPaths ==
    /\ error # "FileNotFoundError"
    /\ pc = "rename" =>
          \A k \in DOMAIN todo :
              (k >= at /\ HasSpace(todo[k].name)) =>
                  (todo[k].root \o <<todo[k].name>>) \in DOMAIN tree

\* every entry the first call found is at its path with the spaces replaced
EntriesAtNormalPaths ==
    \A p \in DOMAIN found :
        /\ normal(p) \in DOMAIN tree
        /\ tree[normal(p)] = found[p]

\* two entries of one directory of tree t whose names are normalized to
\* the same name
Collide(t, p, q) == p # q /\ dirname(p) = dirname(q) /\ normal(p) = normal(q)

\* C12 (bottom-up safety), as claimed for every tree: every rename is
\* issued on a path that exists, and when the call is over each entry the
\* tree had at path p is at p with every space of every component replaced
\* by two underscores.
C12_BottomUpSafety ==
    /\ RenamesOnExistingPaths
    /\ (NamesOver /\ calls = 1) => EntriesAtNormalPaths

\* what holds of C12: every rename is issued on a path that exists, and in
\* a tree where no two names of a directory are normalized to one name the
\* call returns with every entry at its normalized path
C12_SafeWithoutCollision ==
    /\ RenamesOnExistingPaths
    /\ (NamesOver /\ calls = 1 /\ \A p, q \in DOMAIN found : ~Collide(found, p, q)) =>
          (pc = "done" /\ EntriesAtNormalPaths)

\* the call returned, a file of the tree replaced by a renamed one
C12_Witness ==
    /\ pc = "done"
    /\ calls = 1
    /\ \E p \in DOMAIN found :
          /\ found[p].kind = "file"
          /\ tree[normal(p)] # found[p]

\* 'a b/c d' has become 'a__b/c__d'
C12_ChildFollows ==
    /\ pc = "done"
    /\ <<AB, CD>> \in DOMAIN found
    /\ <<A__B, <<"c","_","_","d">> >> \in DOMAIN tree
    /\ tree[<<A__B, <<"c","_","_","d">> >>].origin = <<AB, CD>>

\* C17 (collision-free normalization), as claimed: no two names of one
\* directory are normalized to the same name, so that a call never fails
\* on, replaces or loses an entry and the tree keeps its number of entries.
C17_CollisionFree ==
    NamesOver =>
        /\ \A p, q \in DOMAIN found : ~Collide(found, p, q)
        /\ error = ""
        /\ \A p \in DOMAIN found : \E q \in DOMAIN tree : tree[q] = found[p]
        /\ Cardinality(DOMAIN tree) = Cardinality(DOMAIN found)

\* two files whose names both hold a space have become one file
C17_Witness ==
    /\ pc = "done"
    /\ calls = 1
    /\ DOMAIN found = {<<S__>>, <<__S>>}
    /\ found[<<S__>>].kind = "file"
    /\ found[<<__S>>].kind = "file"
    /\ Cardinality(DOMAIN tree) = 1

(* --------------- properties of the single-identifier mode ------------- *)

\* the program was called with a resource id
SingleMode == args.resource_id # <<>>

\* in single-identifier mode nothing is scanned, nothing is removed, and no
\* other catalog entry is published or touched
OnlyThatItem ==
    SingleMode =>
        /\ source_netcdf = <<>>
        /\ destination_netcdf = <<>>
        /\ i = 0 /\ j = 0
        /\ resource_id = args.resource_id
        /\ \A id \in ResourceIds :
              /\ removals[id] = 0
              /\ id # args.resource_id =>
                    /\ attempts[id] = 0
                    /\ id \in DOMAIN catalog <=> id \in DOMAIN start
                    /\ id \in DOMAIN catalog => catalog[id] = start[id]

\* C13 (single-identifier mode), as claimed: only the resource of the
\* command line is published, without scans or removals, and a
\* NetCDFPublicationError of its publish is caught and logged: the program
\* ends normally, with no exception and exit code 0.
C13_SingleModeIsolated ==
    /\ OnlyThatItem
    /\ (SingleMode /\ outcome[args.resource_id] = "NetCDFPublicationError") =>
          (pc = "done" /\ error = "")

\* the bulk copy failed in single-identifier mode, and the program ended
\* with the exception raised in the handler
C13_Witness ==
    /\ SingleMode
    /\ returncode[args.resource_id] # 0
    /\ outcome[args.resource_id] = "NetCDFPublicationError"
    /\ pc = "aborted"
    /\ error = "AttributeError"

\* publish_resource is beyond the resolution of the timestamp
Resolved == pc \in {"iget", "rchmod", "replace_spaces_in_names", "utime"}

\* C14 (latest timestamp): the timestamp get_latest_resource_timestamp
\* returns is a modification time of a data object of the collection and
\* no data object of the collection, at any depth and of any name, is
\* newer; for a collection without data objects it raises ValueError, and
\* publish_resource goes no further.
C14_LatestTimestamp ==
    (resource_id \in DOMAIN proxy) =>
        LET files == UNION {Range(proxy[resource_id].walk[a]) :
                              a \in DOMAIN proxy[resource_id].walk}
        IN  /\ Resolved =>
                  /\ \E f \in files : f.modify_time = timestamp
                  /\ \A f \in files : f.modify_time <= timestamp
            /\ outcome[resource_id] = "ValueError" <=>
                  (files = {} /\ pc = "aborted" /\ error = "ValueError")
            /\ files = {} => (~Resolved /\ timestamp = 0)

\* the newest data object is below the top of the collection and is no
\* NetCDF file
C14_Witness ==
    /\ pc = "iget"
    /\ proxy[resource_id].walk = Aged(1, 0, 2)
    /\ timestamp = 2

\* the collection has no data object, and the call failed
C14_EmptyFails ==
    /\ pc = "aborted"
    /\ resource_id \in DOMAIN proxy
    /\ proxy[resource_id].walk = Empty
    /\ error = "ValueError"

(* ------------------------------ C15 ----------------------------------- *)

\* the program is not running
AtRest == pc = "idle"

\* what scan_destination reads for id
Read(id) == fromtimestamp(catalog[id].mtime, tz)

\* C15 (destination timestamps), as claimed: between runs, every entry
\* the scanner lists carries the mtime os.utime gave it in a publish of
\* that item, and none carries a timestamp the stamping step did not put
\* there.
C15_StampedTimestamps ==
    AtRest => \A id \in glob(catalog) : id \in stamped

\* a bulk copy that failed has left an entry the scanner lists, with the
\* wall clock's time of the copy as its mtime, beside an entry that
\* os.utime stamped
C15_Witness ==
    /\ AtRest
    /\ \E id \in glob(catalog) :
          /\ id \in failed
          /\ id \notin stamped
          /\ catalog[id].mtime = now
    /\ \E id \in glob(catalog) : id \in stamped

(* ------------------------------ C16 ----------------------------------- *)

\* C16 (publishing precedes removal): within a run, once the source
\* inventory is scanned it is not scanned again; no publish is attempted
\* after a removal; and an identifier is removed only if it is absent from
\* that inventory, so that none is both attempted and removed in the run,
\* whatever its publish left behind.
C16_PublishBeforeRemove ==
    [][/\ (pc # "scan_source" /\ pc' # "idle") => source_netcdf' = source_netcdf
       /\ \A X \in ResourceIds :
             /\ attempts'[X] > attempts[X] => \A Y \in ResourceIds : removals[Y] = 0
             /\ removals'[X] > removals[X] =>
                   /\ X \notin ids_of(source_netcdf)
                   /\ attempts[X] = 0]_vars

\* a run ended in which the publish of one identifier failed and left a
\* directory that was not there before, which was kept, while another
\* identifier was removed
C16_Witness ==
    /\ pc = "done"
    /\ \E X \in ResourceIds :
          /\ outcome[X] = "NetCDFPublicationError"
          /\ X \in DOMAIN catalog \ DOMAIN start
          /\ removals[X] = 0
    /\ \E Y \in ResourceIds : removals[Y] > 0 /\ attempts[Y] = 0

(* ------------------------------ C20 ----------------------------------- *)

\* the identifiers the run has called remove_resource for
Removed == {X \in ResourceIds : removals[X] > 0}

\* the identifiers of the first destination scan that the source inventory
\* does not hold
Planned == StartIds \ ids_of(source_netcdf)

\* C20 (the re-scan changes nothing of the removal): the identifiers the
\* removal loop picks from the re-scanned destination are those of the
\* first destination scan that are absent from the source inventory,
\* whatever the publishes did; a run never removes another identifier, and
\* a run that returns has removed exactly those.
C20_RescanSameRemovals ==
    /\ Removed \subseteq Planned
    /\ pc \in {"remove_loop", "done"} =>
          {destination_netcdf[k][1] : k \in {l \in DOMAIN destination_netcdf :
              orphan(destination_netcdf[l][1], source_netcdf)}} = Planned
    /\ pc = "done" => Removed = Planned

\* a run returned that removed an identifier, and whose re-scan listed other
\* identifiers than its first scan: a publish, which failed, had created a
\* directory
C20_Witness ==
    /\ pc = "done"
    /\ Removed # {}
    /\ ids_of(destination_netcdf) # StartIds
    /\ \E Y \in ids_of(destination_netcdf) \ StartIds :
          outcome[Y] = "NetCDFPublicationError"

(* ------------------------------ C19 ----------------------------------- *)

\* sync_resources is running, or has ended
InSync == ~AtRest /\ ~SingleMode

\* C19 (a failed publish is retried), as claimed: a sync run attempts the
\* publish of every source item whose publish failed in an earlier run and
\* has not succeeded since.
C19_FailedIsRetried ==
    InSync =>
        \A k \in DOMAIN source_netcdf :
            (Passed(k) /\ source_netcdf[k][1] \in failed) =>
                attempts[source_netcdf[k][1]] >= 1

\* a sync run returned without an attempt for an item of its source
\* inventory whose publish had failed before: the directory the failed copy
\* left reads as newer than the source
C19_Witness ==
    /\ InSync
    /\ pc = "done"
    /\ \E k \in DOMAIN source_netcdf :
          LET X == source_netcdf[k][1]
          IN  /\ X \in failed
              /\ attempts[X] = 0
              /\ X \in DOMAIN catalog
              /\ X \notin stamped
              /\ Read(X) > source_netcdf[k][2]

\* a failed publish that left no directory is retried by the next run
C19_RetriedWhenNothingLeft ==
    InSync =>
        \A k \in DOMAIN source_netcdf :
            (Passed(k) /\ source_netcdf[k][1] \in failed
                       /\ source_netcdf[k][1] \notin StartIds) =>
                attempts[source_netcdf[k][1]] >= 1

(* ------------------------------ C18 ----------------------------------- *)

\* the source inventory, as a set, of the store as it is
SourceInventory ==
    LET scanned == scan_source(proxy, CHOOSE o \in Orders(DOMAIN proxy) : TRUE)
    IN  Range(scanned.value)

\* the destination inventory, as a set, of the catalog as it is
DestinationInventory == {<<id, Read(id)>> : id \in glob(catalog)}

\* the run under way makes no publish attempt and no remove attempt
Quiet == \A id \in ResourceIds : attempts[id] = 0 /\ removals[id] = 0

\* C18 (fixpoint), as claimed: after a sync run that returned with every
\* publish succeeding, and while the source is as that run found it, the
\* destination inventory equals the source inventory, identifiers and
\* timestamps, and the sync run that follows attempts no publish and no
\* removal.
C18_Fixpoint ==
    converged =>
        /\ AtRest => DestinationInventory = SourceInventory
        /\ InSync => Quiet

\* the identifiers agree, and the run that follows is quiet
C18_SameIdsAndQuiet ==
    converged =>
        /\ AtRest => glob(catalog) = {item[1] : item \in SourceInventory}
        /\ InSync => Quiet

\* the entries os.utime stamped agree with the source, timestamps included
C18_StampedAgree ==
    (converged /\ AtRest) =>
        \A id \in glob(catalog) \cap stamped : <<id, Read(id)>> \in SourceInventory

\* a sync run returned with no publish failing, and left an entry whose
\* timestamp is not the source's: an earlier run's failed copy created it
C18_Witness ==
    /\ converged
    /\ AtRest
    /\ \E item \in SourceInventory :
          /\ item[1] \in failed
          /\ item[1] \in glob(catalog)
          /\ Read(item[1]) > item[2]

====
